---- MODULE Spec2Model ----
(***************************************************************************)
(* Model of the Olympus clearinghouse liquidation strategy                 *)
(* (src/src/strategy.rs, src/src/main.rs, src/src/utils.rs).               *)
(*                                                                         *)
(* U256 values that carry token amounts are kept at full width: a U256 is  *)
(* a little-endian sequence of base-1000 limbs without leading zero limbs  *)
(* (the empty sequence is 0), so 10^18 is <<0,0,0,0,0,0,1>>.  The checked  *)
(* operators report the overflow on which the uint crate panics.           *)
(* Timestamps are plain naturals counted from the model's epoch.           *)
(***************************************************************************)
EXTENDS Naturals, Sequences, FiniteSets, TLC

\* ------------------------------------------------------------------ U256

LimbBase == 1000

Limbs == Seq(0..(LimbBase - 1))

\* The operations are functions, so that an operand is a value when the
\* limbs are walked.

RECURSIVE Trim(_)
Trim(s) ==
    IF s = <<>> THEN s
    ELSE IF s[Len(s)] = 0 THEN Trim(SubSeq(s, 1, Len(s) - 1)) ELSE s

\* U256::from(n) for a machine integer n
Big[n \in Nat] == IF n = 0 THEN <<>> ELSE <<n % LimbBase>> \o Big[n \div LimbBase]

Limb(a, i) == IF i <= Len(a) THEN a[i] ELSE 0

RECURSIVE AddFrom(_, _, _, _)
AddFrom(a, b, i, carry) ==
    IF i > Len(a) /\ i > Len(b)
    THEN (IF carry = 0 THEN <<>> ELSE <<carry>>)
    ELSE IF carry = 0 /\ i > Len(a) THEN SubSeq(b, i, Len(b))
    ELSE IF carry = 0 /\ i > Len(b) THEN SubSeq(a, i, Len(a))
    ELSE <<(Limb(a, i) + Limb(b, i) + carry) % LimbBase>>
         \o AddFrom(a, b, i + 1, (Limb(a, i) + Limb(b, i) + carry) \div LimbBase)

BigAdd[a \in Limbs, b \in Limbs] == AddFrom(a, b, 1, 0)

RECURSIVE LessFrom(_, _, _)
LessFrom(a, b, i) ==
    IF i = 0 THEN FALSE
    ELSE IF a[i] # b[i] THEN a[i] < b[i]
    ELSE LessFrom(a, b, i - 1)

\* a < b
BigLess[a \in Limbs, b \in Limbs] ==
    IF Len(a) # Len(b) THEN Len(a) < Len(b) ELSE LessFrom(a, b, Len(a))

RECURSIVE SubFrom(_, _, _, _)
SubFrom(a, b, i, borrow) ==
    IF i > Len(a) THEN <<>>
    ELSE <<(Limb(a, i) + LimbBase - Limb(b, i) - borrow) % LimbBase>>
         \o SubFrom(a, b, i + 1,
                1 - ((Limb(a, i) + LimbBase - Limb(b, i) - borrow) \div LimbBase))

\* a - b, for b <= a
BigSub[a \in Limbs, b \in Limbs] == Trim(SubFrom(a, b, 1, 0))

RECURSIVE MulLimbFrom(_, _, _, _)
MulLimbFrom(a, m, i, carry) ==
    IF i > Len(a)
    THEN (IF carry = 0 THEN <<>> ELSE <<carry>>)
    ELSE <<(a[i] * m + carry) % LimbBase>>
         \o MulLimbFrom(a, m, i + 1, (a[i] * m + carry) \div LimbBase)

\* a * m for one limb m
BigMulLimb[a \in Limbs, m \in 0..(LimbBase - 1)] ==
    IF m = 0 THEN <<>> ELSE MulLimbFrom(a, m, 1, 0)

\* a * LimbBase^k
ShiftUp[a \in Limbs, k \in Nat] == IF a = <<>> THEN a ELSE [i \in 1..k |-> 0] \o a

\* a \div LimbBase^k
ShiftDown[a \in Limbs, k \in Nat] ==
    IF Len(a) <= k THEN <<>> ELSE SubSeq(a, k + 1, Len(a))

RECURSIVE MulFrom(_, _, _)
MulFrom(a, b, i) ==
    IF i > Len(b) THEN <<>>
    ELSE BigAdd[ShiftUp[BigMulLimb[a, b[i]], i - 1], MulFrom(a, b, i + 1)]

\* one partial product per limb of the shorter factor
BigMul[a \in Limbs, b \in Limbs] ==
    IF Len(a) < Len(b) THEN MulFrom(b, a, 1) ELSE MulFrom(a, b, 1)

RECURSIVE DivFrom(_, _, _, _)
\* the quotient's limbs i..1 of a \div d, given the remainder of the limbs above
DivFrom(a, d, i, rem) ==
    IF i = 0 THEN <<>>
    ELSE DivFrom(a, d, i - 1, (rem * LimbBase + a[i]) % d)
         \o <<(rem * LimbBase + a[i]) \div d>>

\* a \div d for a machine integer 0 < d < 2 * 10^6
BigDivSmall[a \in Limbs, d \in Nat \ {0}] == Trim(DivFrom(a, d, Len(a), 0))

Square[a \in Limbs] == BigMul[a, a]

\* 2^64 = ((((((2^2)^2)^2)^2)^2)^2): values at or above it do not fit a u64
U64Limit == Square[Square[Square[Square[Square[Square[<<2>>]]]]]]

\* 2^256 = ((2^64)^2)^2: results at or above it overflow a U256
U256Limit == Square[Square[U64Limit]]

U256Max == BigSub[U256Limit, <<1>>]

Fits(x) == BigLess[x, U256Limit]

\* a checked U256 operation: the uint crate panics ("arithmetic operation
\* overflow") when the exact result is not a U256
CheckedMul[a \in Limbs, b \in Limbs] ==
    [panic |-> ~Fits(BigMul[a, b]), val |-> BigMul[a, b]]

CheckedAdd[a \in Limbs, b \in Limbs] ==
    [panic |-> ~Fits(BigAdd[a, b]), val |-> BigAdd[a, b]]

\* a - b wrapped modulo 2^256, which is what a wrapping subtraction would
\* give in place of the checked one
WrappingSub(a, b) ==
    [panic |-> FALSE,
     val |-> IF BigLess[a, b] THEN BigSub[BigAdd[a, U256Limit], b] ELSE BigSub[a, b]]

CheckedSub(a, b) ==
    [panic |-> BigLess[a, b], val |-> IF BigLess[a, b] THEN <<>> ELSE BigSub[a, b]]

\* ---------------------------------------------------------- conversions

\* a spot price as the price source reports it is a decimal number; the model
\* keeps it in hundredths.  `price as u64` truncates toward zero.
PriceAsU64(cents) == cents \div 100

RECURSIVE ParseU256(_)
\* str.parse::<U256>(): the U256 FromStr reads the digits as hexadecimal
ParseU256(digits) ==
    IF digits = <<>> THEN 0
    ELSE ParseU256(SubSeq(digits, 1, Len(digits) - 1)) * 16 + digits[Len(digits)]

RECURSIVE DecimalValue(_)
\* the number the operator wrote, as print_table shows it ("{} dollar", "{}%")
DecimalValue(digits) ==
    IF digits = <<>> THEN 0
    ELSE DecimalValue(SubSeq(digits, 1, Len(digits) - 1)) * 10 + digits[Len(digits)]

\* ---------------------------------------------------------- reward model

SevenDays == 604800

\* 1e18, 1e17 and 5e16 as U256
Wad == ShiftUp[<<1>>, 6]
MaxRewardCeiling == ShiftUp[<<100>>, 5]
FivePercent == ShiftUp[<<50>>, 5]

\* x / 1e18
DivWad(x) == ShiftDown[x, Len(Wad) - 1]

\* a loan that counts as claimable from the second of its expiry
is_claimable_at_expiry(loan, timestamp) ==
    loan.expiry <= timestamp /\ loan.collateral # <<>>

is_claimable(loan, timestamp) ==
    loan.expiry < timestamp /\ loan.collateral # <<>>

\* a percentage that keeps growing after the seven days
calc_reward_percentage_unclamped(loan, timestamp) ==
    [panic |-> loan.expiry > timestamp,
     val |-> IF loan.expiry > timestamp THEN 0
             ELSE ((timestamp - loan.expiry) * 100) \div SevenDays]

\* a percentage that is complete as soon as the loan has expired
calc_reward_percentage_without_ramp(loan, timestamp) ==
    [panic |-> loan.expiry > timestamp,
     val |-> IF loan.expiry >= timestamp THEN 0 ELSE 100]

\* timestamp is the clock reading the function takes itself
calc_reward_percentage(loan, timestamp) ==
    [panic |-> loan.expiry > timestamp,
     val |-> IF loan.expiry > timestamp THEN 0
             ELSE IF timestamp - loan.expiry < SevenDays
             THEN ((timestamp - loan.expiry) * 100) \div SevenDays
             ELSE 100]

\* min(max_reward, max_auction_reward), lines 82-89
MaxReward[max_auction_reward \in Limbs] ==
    IF BigLess[max_auction_reward, MaxRewardCeiling]
    THEN max_auction_reward ELSE MaxRewardCeiling

\* reward_in_gohm, lines 91-95
RewardInGohm[max_reward \in Limbs, elapsed \in Nat] ==
    IF elapsed < SevenDays
    THEN BigDivSmall[BigMul[max_reward, Big[elapsed]], SevenDays]
    ELSE max_reward

\* the reward without the seven-day ramp
calc_rewards_in_dollar_without_ramp(loan, timestamp, ohm_price) ==
    IF loan.expiry > timestamp \/ CheckedMul[loan.collateral, FivePercent].panic
    THEN [panic |-> TRUE, val |-> <<>>]
    ELSE [panic |-> FALSE,
          val |-> DivWad(BigMul[
                      MaxReward[DivWad(CheckedMul[loan.collateral, FivePercent].val)],
                      Big[ohm_price]])]

\* the reward without the 1e17 ceiling
calc_rewards_in_dollar_without_ceiling(loan, timestamp, ohm_price) ==
    IF loan.expiry > timestamp \/ CheckedMul[loan.collateral, FivePercent].panic
    THEN [panic |-> TRUE, val |-> <<>>]
    ELSE [panic |-> FALSE,
          val |-> DivWad(BigMul[
                      RewardInGohm[DivWad(CheckedMul[loan.collateral, FivePercent].val),
                                   timestamp - loan.expiry],
                      Big[ohm_price]])]

\* the reward with the ramp's division made before its multiplication
calc_rewards_in_dollar_dividing_first(loan, timestamp, ohm_price) ==
    IF loan.expiry > timestamp \/ CheckedMul[loan.collateral, FivePercent].panic
    THEN [panic |-> TRUE, val |-> <<>>]
    ELSE [panic |-> FALSE,
          val |-> DivWad(BigMul[
                      IF timestamp - loan.expiry < SevenDays
                      THEN BigMul[
                               BigDivSmall[
                                   MaxReward[DivWad(CheckedMul[loan.collateral,
                                                               FivePercent].val)],
                                   SevenDays],
                               Big[timestamp - loan.expiry]]
                      ELSE MaxReward[DivWad(CheckedMul[loan.collateral,
                                                       FivePercent].val)],
                      Big[ohm_price]])]

calc_rewards_in_dollar(loan, timestamp, ohm_price) ==
    IF loan.expiry > timestamp \/ CheckedMul[loan.collateral, FivePercent].panic
    THEN [panic |-> TRUE, val |-> <<>>]
    ELSE LET max_auction_reward ==
                 DivWad(CheckedMul[loan.collateral, FivePercent].val)
             reward_in_gohm ==
                 RewardInGohm[MaxReward[max_auction_reward], timestamp - loan.expiry]
             priced == CheckedMul[reward_in_gohm, Big[ohm_price]]
         IN  [panic |-> priced.panic,
              val |-> IF priced.panic THEN <<>> ELSE DivWad(priced.val)]

\* ------------------------------------------------- the chain and the inputs

MaxLoans == 2
MaxBackfill == 1
MaxChainOps == 1

HalfRamp == SevenDays \div 2
Epoch == SevenDays + SevenDays

\* the factory's ClearRequest logs, in chain order
ChainLoans ==
    << [cooler |-> "X", req_id |-> 0, loan_id |-> 7],
       [cooler |-> "Y", req_id |-> 0, loan_id |-> 7],
       [cooler |-> "X", req_id |-> 1, loan_id |-> 8] >>

Pair(c, l) == <<c, l>>
Pairs == {Pair(ChainLoans[j].cooler, ChainLoans[j].loan_id) : j \in 1..Len(ChainLoans)}

TenTokens == ShiftUp[<<10>>, 6]

\* what Cooler.getLoan answers before any repayment or extension
InitialLedger ==
    [p \in Pairs |->
        [collateral |-> TenTokens,
         expiry |-> IF p = Pair("Y", 7) THEN Epoch + SevenDays + SevenDays
                    ELSE IF p = Pair("X", 8) THEN Epoch + HalfRamp
                    ELSE Epoch]]

\* readings of the system clock at a block
Times == {Epoch, Epoch + HalfRamp, Epoch + SevenDays}

\* spot prices, in hundredths of a dollar
GohmPrices == {100099}
EthPrices == {200050}

\* eth_gasPrice answers (wei) and eth_estimateGas answers
GasPrices == {ShiftUp[<<10>>, 3], ShiftUp[<<100>>, 3], ShiftUp[<<200>>, 3],
              BigDivSmall[U256Limit, 2]}
GasEstimates == {Big[300000]}

\* the environment's MIN_PROFIT and REWARD_PERIOD_TARGET, as digit strings
MinProfitStrs == {<<3, 0>>, <<5, 0>>}
TargetStr == <<5, 0>>

\* which external call of a handler answers with an error: none, or the
\* n-th get_loan, or one of the named calls
NoFail == [kind |-> "none", n |-> 0]
BlockFails ==
    {NoFail}
    \cup {[kind |-> k, n |-> 0] :
            k \in {"reward_price", "gas_price", "gas_estimate", "native_price",
                   "table_price"}}
    \cup {[kind |-> "refresh", n |-> j] : j \in 1..MaxLoans}
LoanFails == {NoFail} \cup {[kind |-> "refresh", n |-> j] : j \in 1..MaxLoans}
SyncFails ==
    {NoFail, [kind |-> "query", n |-> 0]}
    \cup {[kind |-> "detail", n |-> j] : j \in 1..MaxBackfill}

\* the answers of a call that matter under `fail`: when an earlier call of
\* the handler fails the call is never made, and one answer stands for all
AnswersAfter(fail, answers) ==
    IF fail.kind \in {"none", "native_price", "table_price"} THEN answers
    ELSE {CHOOSE a \in answers : TRUE}

\* ------------------------------------------------------ external clients

\* Cooler::get_loan(loan_id).await
get_loan(lg, cooler, loan_id, failed) ==
    IF failed THEN [ok |-> FALSE, collateral |-> <<>>, expiry |-> 0]
    ELSE [ok |-> TRUE,
          collateral |-> lg[Pair(cooler, loan_id)].collateral,
          expiry |-> lg[Pair(cooler, loan_id)].expiry]

\* a price lookup that answers a failed request with a zero price
get_token_price_or_default(cents, failed) ==
    [ok |-> TRUE, price |-> IF failed THEN 0 ELSE cents]

\* get_token_price(token).await: Err on a transport error
get_token_price(cents, failed) == [ok |-> ~failed, price |-> cents]

\* client.get_gas_price().await and client.estimate_gas(&tx, None).await
rpc_call(answer, failed) == [ok |-> ~failed, val |-> answer]

\* --------------------------------------------------------- LoanTarget

LoanTarget_new(cooler, req_id, loan_id, res) ==
    [panic |-> ~res.ok,
     loan |-> [cooler |-> cooler, req_id |-> req_id, loan_id |-> loan_id,
               collateral |-> res.collateral, expiry |-> res.expiry]]

\* an update that adds the ledger's collateral to the stored one
LoanTarget_update_adding(loan, res) ==
    [panic |-> ~res.ok,
     loan |-> IF res.ok
              THEN [loan EXCEPT !.collateral = BigAdd[loan.collateral, res.collateral],
                                !.expiry = res.expiry]
              ELSE loan]

\* an update that also takes the loan_id for the req_id
LoanTarget_update_renumbering(loan, res) ==
    [panic |-> ~res.ok,
     loan |-> IF res.ok
              THEN [loan EXCEPT !.collateral = res.collateral, !.expiry = res.expiry,
                                !.req_id = loan.loan_id]
              ELSE loan]

\* an update that stores the collateral before it looks at the answer
LoanTarget_update_collateral_first(loan, res) ==
    [panic |-> ~res.ok,
     loan |-> IF res.ok
              THEN [loan EXCEPT !.collateral = res.collateral, !.expiry = res.expiry]
              ELSE [loan EXCEPT !.collateral = res.collateral]]

\* the unwrap precedes both assignments
LoanTarget_update(loan, res) ==
    [panic |-> ~res.ok,
     loan |-> IF res.ok
              THEN [loan EXCEPT !.collateral = res.collateral, !.expiry = res.expiry]
              ELSE loan]

\* the elements of a set of registry indices, in registry order
Ascending(S) ==
    [j \in 1..Cardinality(S) |->
        CHOOSE x \in S : Cardinality({y \in S : y < x}) = j - 1]

\* loan.update().await for the registry entries ls[idxs[1]], ls[idxs[2]], ...
\* in that order, the failAt-th get_loan answering with an error: the loop
\* stops at the first update that panics
UpdateEach(ls, lg, idxs, failAt) ==
    LET r == [j \in 1..Len(idxs) |->
                 LoanTarget_update(ls[idxs[j]],
                     get_loan(lg, ls[idxs[j]].cooler, ls[idxs[j]].loan_id, j = failAt))]
        panics == {j \in 1..Len(idxs) : r[j].panic}
        stop == IF panics = {} THEN 0
                ELSE CHOOSE j \in panics : \A k \in panics : j <= k
        made == IF stop = 0 THEN Len(idxs) ELSE stop
    IN  [loans |-> [i \in 1..Len(ls) |->
                       IF \E j \in 1..made : idxs[j] = i
                       THEN r[CHOOSE j \in 1..made : idxs[j] = i].loan
                       ELSE ls[i]],
         panic |-> stop # 0,
         queries |-> made,
         failIdx |-> IF stop = 0 THEN 0 ELSE idxs[stop]]

\* ------------------------------------------------------------ print_table

RECURSIVE NextExpiryFrom(_, _, _, _)
\* the fold of lines 144-150 over self.loans, starting from U256::MAX
NextExpiryFrom(ls, i, timestamp, acc) ==
    IF i > Len(ls) THEN acc
    ELSE IF ls[i].expiry > timestamp /\ BigLess[Big[ls[i].expiry], acc]
    THEN NextExpiryFrom(ls, i + 1, timestamp, Big[ls[i].expiry - timestamp])
    ELSE NextExpiryFrom(ls, i + 1, timestamp, acc)

\* print_table changes nothing; it panics when its own price lookup fails
\* and when next_expiry.as_u64() does not fit a u64, which is the case when
\* no tracked loan expires after the clock reading (next_expiry is then
\* still U256::MAX)
print_table(ls, timestamp, priceFailed) ==
    [panic |-> ~get_token_price(0, priceFailed).ok
               \/ ~BigLess[NextExpiryFrom(ls, 1, timestamp, U256Max), U64Limit],
     cause |-> IF ~get_token_price(0, priceFailed).ok THEN "unwrap"
               ELSE IF ~BigLess[NextExpiryFrom(ls, 1, timestamp, U256Max), U64Limit]
               THEN "cast"
               ELSE "none"]

\* ---------------------------------------------------------- process_event

SubmitTx(coolers, ids) == [type |-> "SubmitTx", coolers |-> coolers, loans |-> ids]

RECURSIVE SumFrom(_, _, _, _)
\* the fold acc + loan.calc_rewards_in_dollar(now, price) over the loans
\* idxs[j..], given each loan's calc_rewards_in_dollar
SumFrom(rewards, idxs, j, acc) ==
    IF j > Len(idxs) THEN [panic |-> FALSE, val |-> acc]
    ELSE IF rewards[idxs[j]].panic \/ CheckedAdd[acc, rewards[idxs[j]].val].panic
    THEN [panic |-> TRUE, val |-> <<>>]
    ELSE SumFrom(rewards, idxs, j + 1, CheckedAdd[acc, rewards[idxs[j]].val].val)

\* the result of a handler: the registry it leaves, whether it panicked and
\* why, the external call that answered with an error (if the handler got
\* that far), the number of get_loan calls made, the returned actions
Outcome(ls, cause, failure, failIdx, queries, actions, detail) ==
    [loans |-> ls, cause |-> cause, failure |-> failure, failIdx |-> failIdx,
     queries |-> queries, actions |-> actions, detail |-> detail]

\* what a NewBlock decision computed before it returned or panicked: the
\* claimable loans, the refreshed subset, its reward in dollar, the exact
\* products estimate * gas price and (estimate * gas price) * native price,
\* the gas cost in dollar, and whether the comparison with MIN_PROFIT was made
NoDetail == [subset |-> <<>>, claimable |-> <<>>, decided |-> FALSE,
             reward |-> <<>>, gas_cost |-> <<>>, gas_scaled |-> <<>>, gas |-> <<>>]

\* the external call that answered with an error, when it is one of the calls
\* the handler has made so far (nCalls get_loan calls among them)
FailureAmong(fail, kinds, nCalls) ==
    IF fail.kind \in kinds /\ (fail.kind = "refresh" => fail.n <= nCalls)
    THEN fail.kind ELSE "none"

\* the external calls of a NewBlock decision, in the order they are made
CallsToRefresh == {"reward_price", "refresh"}
CallsToGasPrice == CallsToRefresh \cup {"gas_price"}
CallsToEstimate == CallsToGasPrice \cup {"gas_estimate"}
CallsToNative == CallsToEstimate \cup {"native_price"}

\* the control flow of Event::NewBlock, lines 302-393 and 442, over the
\* values v its statements compute (see the action NewBlock)
NewBlockOutcome(ls, minProfitStr, fail, v) ==
    LET priceRes == v.priceRes
        claimable_loans == v.claimable_loans
        claimable_dollar_raw == v.claimable_dollar_raw
        hitSet == v.hitSet
        refreshed == v.refreshed
        claimable_reward_hit_dollar == v.claimable_reward_hit_dollar
        gasPriceRes == v.gasPriceRes
        gasEstimateRes == v.gasEstimateRes
        gas_cost == v.gas_cost
        ethRes == v.ethRes
        gasScaled == v.gasScaled
        net == v.net
        table == v.table
        ls2 == refreshed.loans
        q == refreshed.queries
        tx == SubmitTx([j \in 1..Len(hitSet) |-> ls2[hitSet[j]].cooler],
                       [j \in 1..Len(hitSet) |-> ls2[hitSet[j]].loan_id])
        profit_target_hit == BigLess[Big[ParseU256(minProfitStr)], net.val]
        d1 == [NoDetail EXCEPT !.claimable = claimable_loans, !.subset = hitSet]
        d2 == [d1 EXCEPT !.reward = claimable_reward_hit_dollar.val]
        d3 == [d2 EXCEPT !.gas_cost = gas_cost.val]
        d4 == [d3 EXCEPT !.gas_scaled = gasScaled.val]
        d5 == [d4 EXCEPT !.gas = DivWad(gasScaled.val)]
        d6 == [d5 EXCEPT !.decided = TRUE]
    IN  IF ~priceRes.ok
        THEN Outcome(ls, "unwrap", FailureAmong(fail, {"reward_price"}, 0), 0, 0,
                     <<>>, NoDetail)
        ELSE IF claimable_dollar_raw.panic
        THEN Outcome(ls, "arithmetic", FailureAmong(fail, {"reward_price"}, 0), 0, 0,
                     <<>>, NoDetail)
        ELSE IF refreshed.panic
        THEN Outcome(ls2, "unwrap", FailureAmong(fail, CallsToRefresh, q),
                     refreshed.failIdx, q, <<>>, d1)
        ELSE IF Len(hitSet) = 0
        THEN Outcome(ls2, table.cause,
                     FailureAmong(fail, CallsToRefresh \cup {"table_price"}, q),
                     0, q, <<>>, d1)
        ELSE IF claimable_reward_hit_dollar.panic
        THEN Outcome(ls2, "arithmetic", FailureAmong(fail, CallsToRefresh, q), 0, q,
                     <<>>, d1)
        ELSE IF ~gasPriceRes.ok
        THEN Outcome(ls2, "unwrap", FailureAmong(fail, CallsToGasPrice, q), 0, q,
                     <<>>, d2)
        ELSE IF ~gasEstimateRes.ok
        THEN Outcome(ls2, "unwrap", FailureAmong(fail, CallsToEstimate, q), 0, q,
                     <<>>, d2)
        ELSE IF gas_cost.panic
        THEN Outcome(ls2, "arithmetic", FailureAmong(fail, CallsToEstimate, q), 0, q,
                     <<>>, d3)
        ELSE IF ~ethRes.ok
        THEN Outcome(ls2, "unwrap", FailureAmong(fail, CallsToNative, q), 0, q,
                     <<>>, d3)
        ELSE IF gasScaled.panic
        THEN Outcome(ls2, "arithmetic", FailureAmong(fail, CallsToNative, q), 0, q,
                     <<>>, d4)
        ELSE IF net.panic
        THEN Outcome(ls2, "arithmetic", FailureAmong(fail, CallsToNative, q), 0, q,
                     <<>>, d5)
        ELSE IF table.panic
        THEN Outcome(ls2, table.cause,
                     FailureAmong(fail, CallsToNative \cup {"table_price"}, q),
                     0, q, <<>>, d6)
        ELSE Outcome(ls2, "none",
                     FailureAmong(fail, CallsToNative \cup {"table_price"}, q), 0, q,
                     IF profit_target_hit THEN <<tx>> ELSE <<>>, d6)

\* Event::NewLoan, lines 395-401
NewLoanOutcome(ls, lg, log, fail) ==
    LET r == LoanTarget_new(log.cooler, log.req_id, log.loan_id,
                 get_loan(lg, log.cooler, log.loan_id,
                          fail.kind = "refresh" /\ fail.n = 1))
    IN  IF r.panic
        THEN Outcome(ls, "unwrap", FailureAmong(fail, {"refresh"}, 1), 0, 1, <<>>,
                     NoDetail)
        ELSE Outcome(Append(ls, r.loan), "none", FailureAmong(fail, {"refresh"}, 1),
                     0, 1, <<>>, NoDetail)

\* a refresh loop that ends by asking for a claim of the refreshed loans
RefreshedAndClaimed(r, fail) ==
    Outcome(r.loans, IF r.panic THEN "unwrap" ELSE "none",
            FailureAmong(fail, {"refresh"}, r.queries), r.failIdx, r.queries,
            <<SubmitTx(<<>>, <<>>)>>, NoDetail)

\* the result of one of the three refresh loops
Refreshed(r, fail) ==
    Outcome(r.loans, IF r.panic THEN "unwrap" ELSE "none",
            FailureAmong(fail, {"refresh"}, r.queries), r.failIdx, r.queries, <<>>,
            NoDetail)

\* a RepayLoan handler that leaves the registry as it is
RepayLoanOutcome_without_update(ls, lg, address, loan_id, fail) ==
    Outcome(ls, "none", "none", 0, 0, <<>>, NoDetail)

\* Event::RepayLoan, lines 403-415
RepayLoanOutcome(ls, lg, address, loan_id, fail) ==
    Refreshed(
        UpdateEach(ls, lg,
            Ascending({i \in 1..Len(ls) :
                ls[i].loan_id = loan_id /\ ls[i].cooler = address}),
            IF fail.kind = "refresh" THEN fail.n ELSE 0),
        fail)

\* an ExtendLoan handler that selects its loans by loan_id alone
ExtendLoanOutcome_by_loan_id(ls, lg, address, loan_id, fail) ==
    Refreshed(
        UpdateEach(ls, lg,
            Ascending({i \in 1..Len(ls) : ls[i].loan_id = loan_id}),
            IF fail.kind = "refresh" THEN fail.n ELSE 0),
        fail)

\* Event::ExtendLoan, lines 417-427
ExtendLoanOutcome(ls, lg, address, loan_id, fail) ==
    Refreshed(
        UpdateEach(ls, lg,
            Ascending({i \in 1..Len(ls) :
                ls[i].loan_id = loan_id /\ ls[i].cooler = address}),
            IF fail.kind = "refresh" THEN fail.n ELSE 0),
        fail)

\* a DefaultLoan handler that unwraps the first loan it selected
DefaultLoanOutcome_expecting_a_loan(ls, lg, address, loan_id, fail) ==
    IF \E i \in 1..Len(ls) : ls[i].loan_id = loan_id /\ ls[i].cooler = address
    THEN Refreshed(
             UpdateEach(ls, lg,
                 Ascending({i \in 1..Len(ls) :
                     ls[i].loan_id = loan_id /\ ls[i].cooler = address}),
                 IF fail.kind = "refresh" THEN fail.n ELSE 0),
             fail)
    ELSE Outcome(ls, "unwrap", "none", 0, 0, <<>>, NoDetail)

\* Event::DefaultLoan, lines 429-439
DefaultLoanOutcome(ls, lg, address, loan_id, fail) ==
    Refreshed(
        UpdateEach(ls, lg,
            Ascending({i \in 1..Len(ls) :
                ls[i].loan_id = loan_id /\ ls[i].cooler = address}),
            IF fail.kind = "refresh" THEN fail.n ELSE 0),
        fail)

\* ------------------------------------------------------------- sync_state

\* set_loans: the `?` on the log query returns the error to the caller; the
\* loop of lines 276-282 pushes one LoanTarget per log and stops at the
\* first LoanTarget::new that panics
set_loans(ls, lg, logs, fail) ==
    LET r == [j \in 1..Len(logs) |->
                 LoanTarget_new(logs[j].cooler, logs[j].req_id, logs[j].loan_id,
                     get_loan(lg, logs[j].cooler, logs[j].loan_id,
                              fail.kind = "detail" /\ fail.n = j))]
        panics == {j \in 1..Len(logs) : r[j].panic}
        stop == IF panics = {} THEN 0
                ELSE CHOOSE j \in panics : \A k \in panics : j <= k
        pushed == IF stop = 0 THEN Len(logs) ELSE stop - 1
    IN  IF fail.kind = "query"
        THEN [ok |-> FALSE, panic |-> FALSE, loans |-> ls, queries |-> 0]
        ELSE [ok |-> stop = 0, panic |-> stop # 0,
              loans |-> ls \o [j \in 1..pushed |-> r[j].loan],
              queries |-> IF stop = 0 THEN Len(logs) ELSE stop]

\* a sync_state that drops the error of set_loans
sync_state_ignoring_error(r) == [panic |-> r.panic, loans |-> r.loans]

\* sync_state: self.set_loans().await.unwrap(); Ok(())
sync_state(r) == [panic |-> r.panic \/ ~r.ok, loans |-> r.loans]

\* ------------------------------------------------------------------ state

VARIABLES
    phase,      \* "Uninitialized", "Live", or "Aborted" once a handler panicked
    loans,      \* LiquidationStrategy.loans
    ledger,     \* what each cooler's getLoan answers
    chainOps,   \* repayments and extensions made on the chain so far
    minProfit,  \* the MIN_PROFIT of the environment
    last,       \* the last operation of the strategy and its result
    probe       \* one LoanTarget and the last evaluation of its pure methods

vars == <<phase, loans, ledger, chainOps, minProfit, last, probe>>

Record(kind, cooler, loan_id, now, out) ==
    [kind |-> kind, cooler |-> cooler, loan_id |-> loan_id, now |-> now,
     ops |-> chainOps,
     cause |-> out.cause, failure |-> out.failure, failIdx |-> out.failIdx,
     queries |-> out.queries, actions |-> out.actions, detail |-> out.detail]

\* a LoanTarget whose pure methods are evaluated on their own
ProbeLoan(collateral, expiry) ==
    [cooler |-> "X", req_id |-> 0, loan_id |-> 7,
     collateral |-> collateral, expiry |-> expiry]

\* the collaterals, clock readings and prices (as u64) of the evaluations:
\* nothing, 1, 2 and 10 tokens, 2 tokens less 20 wei (5% of which is an odd
\* amount) and the largest U256; the second before the expiry, the expiry,
\* and points on and after the seven-day ramp
ProbeCollaterals ==
    {<<>>, Wad, BigAdd[Wad, Wad], BigSub[BigAdd[Wad, Wad], <<20>>], TenTokens, U256Max}
ProbeExpiry == Epoch
ProbeTimes ==
    {ProbeExpiry - 1, ProbeExpiry, ProbeExpiry + 1, ProbeExpiry + HalfRamp,
     ProbeExpiry + SevenDays - 1, ProbeExpiry + SevenDays,
     ProbeExpiry + SevenDays + 1, ProbeExpiry + SevenDays + SevenDays}
ProbePrices == {0, 1, 2, 15, 1000}

Unevaluated(loan) ==
    [loan |-> loan, evaluated |-> FALSE, now |-> 0, price |-> 0,
     claimable |-> FALSE, percentage |-> [panic |-> FALSE, val |-> 0],
     gohm |-> <<>>, reward |-> [panic |-> FALSE, val |-> <<>>]]

\* reward_in_gohm of calc_rewards_in_dollar, lines 80-95, where it is computed
reward_in_gohm(loan, timestamp) ==
    IF loan.expiry > timestamp \/ CheckedMul[loan.collateral, FivePercent].panic
    THEN <<>>
    ELSE RewardInGohm[MaxReward[DivWad(CheckedMul[loan.collateral, FivePercent].val)],
                      timestamp - loan.expiry]

Init ==
    /\ phase = "Uninitialized"
    /\ loans = <<>>
    /\ ledger = InitialLedger
    /\ chainOps = 0
    /\ minProfit \in MinProfitStrs
    /\ last = Record("None", "", 0, 0,
                     Outcome(<<>>, "none", "none", 0, 0, <<>>, NoDetail))
    /\ probe = Unevaluated(ProbeLoan(<<>>, 0))

\* a handler that panics ends the strategy task, and main returns the
\* JoinError (main.rs 99-107): no further event is handled
Finish(kind, cooler, loan_id, now, out) ==
    /\ loans' = out.loans
    /\ phase' = IF out.cause = "none" THEN "Live" ELSE "Aborted"
    /\ last' = Record(kind, cooler, loan_id, now, out)
    /\ UNCHANGED <<ledger, chainOps, minProfit, probe>>

Sync ==
    /\ phase = "Uninitialized"
    /\ \E n \in 0..MaxBackfill, fail \in SyncFails :
       \E r \in {set_loans(loans, ledger, SubSeq(ChainLoans, 1, n), fail)} :
       \E s \in {sync_state(r)} :
          Finish("Sync", "", 0, 0,
                 Outcome(s.loans, IF s.panic THEN "unwrap" ELSE "none",
                         IF fail.kind = "query" \/ (fail.kind = "detail" /\ fail.n <= n)
                         THEN fail.kind ELSE "none",
                         0, r.queries, <<>>, NoDetail))

NewBlock ==
    /\ phase = "Live"
    /\ \E now \in Times, gohm \in GohmPrices, eth \in EthPrices,
          fail \in BlockFails, ge \in GasEstimates :
       \E gp \in AnswersAfter(fail, GasPrices) :
       \* line 303
       \E priceRes \in {get_token_price(gohm, fail.kind = "reward_price")} :
       \* calc_rewards_in_dollar of the claimable loans at this clock reading
       \E rewards \in {[i \in 1..Len(loans) |->
                          IF is_claimable(loans[i], now)
                          THEN calc_rewards_in_dollar(loans[i], now,
                                                      PriceAsU64(priceRes.price))
                          ELSE [panic |-> FALSE, val |-> <<>>]]} :
       \* lines 304-314
       \E claimable_loans \in {Ascending({i \in 1..Len(loans) :
                                  is_claimable(loans[i], now)
                                  /\ (rewards[i].panic \/ rewards[i].val # <<>>)})} :
       \* lines 316-322
       \E claimable_dollar_raw \in {SumFrom(rewards, claimable_loans, 1, <<>>)} :
       \* lines 324-333
       \E hitSet \in {SelectSeq(claimable_loans,
                         LAMBDA i : calc_reward_percentage(loans[i], now).val
                                      > ParseU256(TargetStr))} :
       \* lines 335-337
       \E refreshed \in {UpdateEach(loans, ledger, hitSet,
                                    IF fail.kind = "refresh" THEN fail.n ELSE 0)} :
       \* lines 344-351
       \E rewards2 \in {[i \in 1..Len(loans) |->
                           IF \E j \in 1..Len(hitSet) : hitSet[j] = i
                           THEN calc_rewards_in_dollar(refreshed.loans[i], now,
                                                       PriceAsU64(priceRes.price))
                           ELSE [panic |-> FALSE, val |-> <<>>]]} :
       \E claimable_reward_hit_dollar \in {SumFrom(rewards2, hitSet, 1, <<>>)} :
       \* lines 366, 375
       \E gasPriceRes \in {rpc_call(gp, fail.kind = "gas_price")},
          gasEstimateRes \in {rpc_call(ge, fail.kind = "gas_estimate")} :
       \* line 376
       \E gas_cost \in {CheckedMul[gasEstimateRes.val, gasPriceRes.val]} :
       \* lines 377-378
       \E ethRes \in {get_token_price(eth, fail.kind = "native_price")} :
       \E gasScaled \in {CheckedMul[gas_cost.val, Big[PriceAsU64(ethRes.price)]]} :
       \* lines 379-380
       \E net \in {CheckedSub(claimable_reward_hit_dollar.val, DivWad(gasScaled.val))} :
       \* lines 340, 384
       \E table \in {print_table(refreshed.loans, now, fail.kind = "table_price")} :
          Finish("NewBlock", "", 0, now,
                 NewBlockOutcome(loans, minProfit, fail,
                     [priceRes |-> priceRes,
                      claimable_loans |-> claimable_loans,
                      claimable_dollar_raw |-> claimable_dollar_raw,
                      hitSet |-> hitSet,
                      refreshed |-> refreshed,
                      claimable_reward_hit_dollar |-> claimable_reward_hit_dollar,
                      gasPriceRes |-> gasPriceRes,
                      gasEstimateRes |-> gasEstimateRes,
                      gas_cost |-> gas_cost,
                      ethRes |-> ethRes,
                      gasScaled |-> gasScaled,
                      net |-> net,
                      table |-> table]))

NewLoan ==
    /\ phase = "Live"
    /\ Len(loans) < MaxLoans
    /\ \E j \in 1..Len(ChainLoans), fail \in LoanFails :
       \E out \in {NewLoanOutcome(loans, ledger, ChainLoans[j], fail)} :
          Finish("NewLoan", ChainLoans[j].cooler, ChainLoans[j].loan_id, 0, out)

RepayLoan ==
    /\ phase = "Live"
    /\ \E p \in Pairs, fail \in LoanFails :
       \E out \in {RepayLoanOutcome(loans, ledger, p[1], p[2], fail)} :
          Finish("RepayLoan", p[1], p[2], 0, out)

ExtendLoan ==
    /\ phase = "Live"
    /\ \E p \in Pairs, fail \in LoanFails :
       \E out \in {ExtendLoanOutcome(loans, ledger, p[1], p[2], fail)} :
          Finish("ExtendLoan", p[1], p[2], 0, out)

DefaultLoan ==
    /\ phase = "Live"
    /\ \E p \in Pairs, fail \in LoanFails :
       \E out \in {DefaultLoanOutcome(loans, ledger, p[1], p[2], fail)} :
          Finish("DefaultLoan", p[1], p[2], 0, out)

\* a borrower repays a loan in full: its collateral is returned
ChainRepay ==
    /\ phase # "Aborted"
    /\ chainOps < MaxChainOps
    /\ \E p \in Pairs :
        /\ ledger[p].collateral # <<>>
        /\ ledger' = [ledger EXCEPT ![p].collateral = <<>>]
    /\ chainOps' = chainOps + 1
    /\ UNCHANGED <<phase, loans, minProfit, last, probe>>

\* a borrower extends a loan by one term
ChainExtend ==
    /\ phase # "Aborted"
    /\ chainOps < MaxChainOps
    /\ \E p \in Pairs :
        ledger' = [ledger EXCEPT ![p].expiry = @ + SevenDays]
    /\ chainOps' = chainOps + 1
    /\ UNCHANGED <<phase, loans, minProfit, last, probe>>

Next ==
    \/ Sync
    \/ NewBlock
    \/ NewLoan
    \/ RepayLoan
    \/ ExtendLoan
    \/ DefaultLoan
    \/ ChainRepay
    \/ ChainExtend

Spec == Init /\ [][Next]_vars

\* ------------------------------------------- the methods of one LoanTarget

RewardInit ==
    /\ phase = "Uninitialized"
    /\ loans = <<>>
    /\ ledger = InitialLedger
    /\ chainOps = 0
    /\ minProfit = <<0>>
    /\ last = Record("None", "", 0, 0,
                     Outcome(<<>>, "none", "none", 0, 0, <<>>, NoDetail))
    /\ probe \in {Unevaluated(ProbeLoan(c, ProbeExpiry)) : c \in ProbeCollaterals}

\* is_claimable, calc_reward_percentage and calc_rewards_in_dollar of the
\* loan at one clock reading and one price
Evaluate ==
    /\ \E now \in ProbeTimes, price \in ProbePrices :
          probe' = [loan |-> probe.loan, evaluated |-> TRUE,
                    now |-> now, price |-> price,
                    claimable |-> is_claimable(probe.loan, now),
                    percentage |-> calc_reward_percentage(probe.loan, now),
                    gohm |-> reward_in_gohm(probe.loan, now),
                    reward |-> calc_rewards_in_dollar(probe.loan, now, price)]
    /\ UNCHANGED <<phase, loans, ledger, chainOps, minProfit, last>>

RewardSpec == RewardInit /\ [][Evaluate]_vars

\* -------------------------------------- blocks after a backfill of three

\* ledgers on which (X, 7) has expired, (Y, 7) has not, and (X, 8) expires
\* with (X, 7), or two days, half a ramp or a whole ramp after it
ClaimLedgers ==
    {[p \in Pairs |->
         [collateral |-> TenTokens,
          expiry |-> IF p = Pair("Y", 7) THEN Epoch + SevenDays + SevenDays
                     ELSE IF p = Pair("X", 8) THEN e
                     ELSE Epoch]] :
       e \in {Epoch, Epoch + (SevenDays \div 7) * 2, Epoch + HalfRamp,
              Epoch + SevenDays}}

\* the strategy after sync_state has backfilled the three loans
ClaimInit ==
    /\ phase = "Live"
    /\ ledger \in ClaimLedgers
    /\ loans = set_loans(<<>>, ledger, ChainLoans, NoFail).loans
    /\ chainOps = 0
    /\ minProfit \in MinProfitStrs
    /\ last = Record("Sync", "", 0, 0,
                     Outcome(loans, "none", "none", 0, Len(ChainLoans), <<>>, NoDetail))
    /\ probe = Unevaluated(ProbeLoan(<<>>, 0))

ClaimSpec == ClaimInit /\ [][NewBlock]_vars

\* ------------------------- blocks handled before the event of a mutation

\* the ledger at the backfill: (X, 7) and (X, 8) expired, (Y, 7) not
BackfillLedger ==
    [p \in Pairs |->
        [collateral |-> TenTokens,
         expiry |-> IF p = Pair("Y", 7) THEN Epoch + SevenDays + SevenDays
                    ELSE Epoch]]

\* the ledger since: as it was, or with one loan repaid in full, extended
\* by one term or extended by two
LaterLedgers ==
    {BackfillLedger}
    \cup {[BackfillLedger EXCEPT ![p].collateral = <<>>] : p \in Pairs}
    \cup {[BackfillLedger EXCEPT ![p].expiry = @ + SevenDays] : p \in Pairs}
    \cup {[BackfillLedger EXCEPT ![p].expiry = @ + SevenDays + SevenDays] :
             p \in Pairs}

\* the strategy after sync_state has backfilled the three loans, when the
\* ledger has moved on and the event of that has not been handled yet
StaleInit ==
    /\ phase = "Live"
    /\ ledger \in LaterLedgers
    /\ loans = set_loans(<<>>, BackfillLedger, ChainLoans, NoFail).loans
    /\ chainOps = MaxChainOps
    /\ minProfit \in MinProfitStrs
    /\ last = Record("Sync", "", 0, 0,
                     Outcome(loans, "none", "none", 0, Len(ChainLoans), <<>>, NoDetail))
    /\ probe = Unevaluated(ProbeLoan(<<>>, 0))

StaleSpec == StaleInit /\ [][NewBlock]_vars

\* ------------------------------------------------------------ properties

LoanEvents == {"NewLoan", "RepayLoan", "ExtendLoan", "DefaultLoan"}
RefreshEvents == {"RepayLoan", "ExtendLoan", "DefaultLoan"}

\* the registry entries an event for (cooler, loan_id) is about
Matching(ls, cooler, loan_id) ==
    {i \in 1..Len(ls) : ls[i].cooler = cooler /\ ls[i].loan_id = loan_id}

\* a registry entry with the ledger's current collateral and expiry
FromLedger(loan, lg) ==
    [loan EXCEPT !.collateral = lg[Pair(loan.cooler, loan.loan_id)].collateral,
                 !.expiry = lg[Pair(loan.cooler, loan.loan_id)].expiry]

\* the MIN_PROFIT of the environment read as the dollar amount print_table
\* shows, is exceeded by reward - gas
NetExceedsMinProfit ==
    BigLess[BigAdd[last.detail.gas, Big[DecimalValue(minProfit)]], last.detail.reward]

\* C1: a NewBlock decision with a non-empty subset, all of whose external
\* calls succeeded and which returned, submits the claim if and only if
\* reward - gas is strictly greater than the configured minimum profit.
C1_SubmitIffNetExceedsMinProfit ==
    (/\ last.kind = "NewBlock"
     /\ last.detail.subset # <<>>
     /\ last.failure = "none"
     /\ last.cause = "none")
    => (last.actions # <<>> <=> NetExceedsMinProfit)

\* C2: every handled event returns at most one action; the four loan events
\* return none, and a SubmitTx is returned by a NewBlock only.
C2_AtMostOneAction ==
    /\ Len(last.actions) <= 1
    /\ last.kind \in LoanEvents => last.actions = <<>>
    /\ \A j \in 1..Len(last.actions) :
           last.actions[j].type = "SubmitTx" => last.kind = "NewBlock"

C2_Witness ==
    /\ last.kind = "NewBlock"
    /\ Len(last.actions) = 1
    /\ last.actions[1].type = "SubmitTx"

\* C3: no two registry entries share both the cooler address and the loan_id.
C3_UniqueEntries ==
    \A i, j \in 1..Len(loans) :
        (loans[i].cooler = loans[j].cooler /\ loans[i].loan_id = loans[j].loan_id)
        => i = j

\* C4: after a NewBlock whose reward price, gas price, gas estimate or native
\* price request failed, the engine is still Live.
C4_FailureSkipsBlockOnly ==
    (/\ last.kind = "NewBlock"
     /\ last.failure \in {"reward_price", "gas_price", "gas_estimate", "native_price"})
    => phase = "Live"

\* C5: a NewBlock whose decision path met a failed reward price lookup,
\* refresh, gas price fetch, gas estimate or native price lookup returns no
\* action.
C5_NoSubmitOnFailure ==
    (/\ last.kind = "NewBlock"
     /\ last.failure \in {"reward_price", "refresh", "gas_price", "gas_estimate",
                          "native_price"})
    => last.actions = <<>>

\* the last call of the decision path fails, for a subset whose claim
\* would otherwise be worth submitting
C5_Witness ==
    /\ last.kind = "NewBlock"
    /\ last.failure = "native_price"
    /\ last.detail.subset # <<>>
    /\ BigLess[Big[ParseU256(minProfit)], last.detail.reward]
    /\ last.actions = <<>>

\* C6: once the log query or a detail fetch of the sync has failed, the
\* engine is never Live and no event is handled: the failed sync stays the
\* last operation.
C6_FailedSyncNeverLive ==
    []((last.kind = "Sync" /\ last.failure # "none")
        => [](phase # "Live" /\ last.kind = "Sync"))

C6_Witness ==
    /\ last.kind = "Sync"
    /\ last.failure = "detail"
    /\ phase = "Aborted"

\* C7: when the gas cost in dollar exceeds the subset's reward, or one of
\* the gas products does not fit 256 bits, the decision fails on the
\* arithmetic and returns no action.
C7_NoWrappedProfit ==
    (/\ last.kind = "NewBlock"
     /\ \/ BigLess[last.detail.reward, last.detail.gas]
        \/ ~Fits(last.detail.gas_cost)
        \/ ~Fits(last.detail.gas_scaled))
    => (last.actions = <<>> /\ last.cause = "arithmetic")

C7_Witness ==
    /\ last.kind = "NewBlock"
    /\ last.detail.subset # <<>>
    /\ BigLess[last.detail.reward, last.detail.gas]
    /\ last.cause = "arithmetic"

\* C8: a handler stopped by a failed get_loan of the entry failIdx leaves
\* that entry's collateral and expiry as they were, and every other entry
\* either as it was or, if the same loop refreshed it before, as the ledger
\* has it.
C8_FailedRefreshKeepsEntry ==
    [][(/\ phase = "Live"
        /\ phase' = "Aborted"
        /\ last'.failure = "refresh"
        /\ last'.failIdx # 0)
       => (/\ Len(loans') = Len(loans)
           /\ loans'[last'.failIdx] = loans[last'.failIdx]
           /\ \A i \in 1..Len(loans) :
                  \/ loans'[i] = loans[i]
                  \/ (i < last'.failIdx /\ loans'[i] = FromLedger(loans[i], ledger)))]_vars

\* the refresh failed for an entry the ledger has different values for
C8_Witness ==
    /\ phase = "Aborted"
    /\ last.failure = "refresh"
    /\ last.failIdx # 0
    /\ loans[last.failIdx] # FromLedger(loans[last.failIdx], ledger)

\* C9: a RepayLoan, ExtendLoan or DefaultLoan for (cooler, loan_id) whose
\* get_loan calls succeed queries the ledger once per entry matching both
\* fields and leaves the registry with those entries at the ledger's values
\* and all others as they were, whichever of the three events it is.
C9_RefreshesExactlyMatching ==
    [][((RepayLoan \/ ExtendLoan \/ DefaultLoan) /\ last'.cause = "none")
       => (/\ Len(loans') = Len(loans)
           /\ last'.queries = Cardinality(Matching(loans, last'.cooler, last'.loan_id))
           /\ \A i \in 1..Len(loans) :
                  loans'[i] = IF i \in Matching(loans, last'.cooler, last'.loan_id)
                              THEN FromLedger(loans[i], ledger)
                              ELSE loans[i])]_vars

\* an extension moved an entry to the ledger's new expiry, next to an entry
\* of another cooler with the same loan_id
C9_Witness ==
    /\ last.kind = "ExtendLoan"
    /\ last.cause = "none"
    /\ last.queries = 1
    /\ \E i, j \in 1..Len(loans) :
          /\ i \in Matching(loans, last.cooler, last.loan_id)
          /\ loans[i].expiry # InitialLedger[Pair(last.cooler, last.loan_id)].expiry
          /\ loans[j].loan_id = last.loan_id
          /\ loans[j].cooler # last.cooler

\* C10: a RepayLoan, ExtendLoan or DefaultLoan for a pair no registry entry
\* has changes nothing, queries nothing, returns no action and does not fail.
C10_UnknownPairIsNoOp ==
    [][((RepayLoan \/ ExtendLoan \/ DefaultLoan)
        /\ Matching(loans, last'.cooler, last'.loan_id) = {})
       => (/\ loans' = loans
           /\ last'.queries = 0
           /\ last'.actions = <<>>
           /\ last'.cause = "none"
           /\ phase' = "Live")]_vars

C10_Witness ==
    /\ last.kind \in RefreshEvents
    /\ loans # <<>>
    /\ Matching(loans, last.cooler, last.loan_id) = {}
    /\ last.queries = 0
    /\ phase = "Live"

\* C11: when an origination event has added the only entry of a pair and the
\* next event is a repay event for that pair, the registry has exactly one
\* entry for the pair afterwards, with the collateral the ledger has after
\* the repayment.
C11_OriginationThenRepay ==
    [][(/\ last.kind = "NewLoan"
        /\ last.cause = "none"
        /\ Cardinality(Matching(loans, last.cooler, last.loan_id)) = 1
        /\ RepayLoan
        /\ last'.cooler = last.cooler
        /\ last'.loan_id = last.loan_id
        /\ last'.cause = "none")
       => (/\ Cardinality(Matching(loans', last.cooler, last.loan_id)) = 1
           /\ \A i \in Matching(loans', last.cooler, last.loan_id) :
                  loans'[i].collateral
                      = ledger[Pair(last.cooler, last.loan_id)].collateral)]_vars

\* the loan (X, 7) was repaid on the chain before its repay event was handled
C11_Witness ==
    /\ last.kind = "RepayLoan"
    /\ last.cooler = "X"
    /\ last.loan_id = 7
    /\ last.cause = "none"
    /\ last.ops = 1
    /\ Cardinality(Matching(loans, "X", 7)) = 1
    /\ ledger[Pair("X", 7)].collateral # InitialLedger[Pair("X", 7)].collateral
    /\ \A i \in Matching(loans, "X", 7) :
           loans[i].collateral = ledger[Pair("X", 7)].collateral

\* C12: no step removes or reorders a registry entry or changes its cooler,
\* req_id or loan_id; a NewLoan event that is handled adds exactly one entry
\* and every other event adds none.
C12_RegistryOnlyGrows ==
    [][/\ Len(loans') >= Len(loans)
       /\ \A i \in 1..Len(loans) :
              /\ loans'[i].cooler = loans[i].cooler
              /\ loans'[i].req_id = loans[i].req_id
              /\ loans'[i].loan_id = loans[i].loan_id
       /\ (phase = "Live" /\ NewLoan /\ last'.cause = "none")
              => Len(loans') = Len(loans) + 1
       /\ (phase = "Live" /\ ~(NewLoan /\ last'.cause = "none"))
              => Len(loans') = Len(loans)]_vars

\* a registry of two entries, one of them refreshed to a new expiry
C12_Witness ==
    /\ Len(loans) = 2
    /\ last.kind \in RefreshEvents
    /\ last.queries >= 1
    /\ \E i \in 1..Len(loans) :
           loans[i].expiry # InitialLedger[Pair(loans[i].cooler, loans[i].loan_id)].expiry

\* the loan is claimable and more than the configured percentage of the
\* seven days has passed since its expiry
ClearsTarget(loan, now) ==
    /\ loan.expiry < now
    /\ loan.collateral # <<>>
    /\ (now - loan.expiry) * 100 > DecimalValue(TargetStr) * SevenDays

\* C13: a NewBlock for which no registry entry clears the reward period
\* target returns no action; it refreshes no loan and computes no gas cost
\* of a claim.
C13_EmptySubsetNoAction ==
    [][(/\ phase = "Live"
        /\ chainOps' = chainOps
        /\ last'.kind = "NewBlock"
        /\ \A i \in 1..Len(loans) : ~ClearsTarget(loans[i], last'.now))
       => (/\ last'.actions = <<>>
           /\ last'.queries = 0
           /\ last'.detail.gas_cost = <<>>
           /\ loans' = loans)]_vars

\* a claimable loan half way up the ramp, which is below the target
C13_Witness ==
    /\ last.kind = "NewBlock"
    /\ last.cause = "none"
    /\ last.detail.claimable # <<>>
    /\ last.detail.subset = <<>>
    /\ last.actions = <<>>

\* C14: is_claimable is true exactly when the expiry is strictly before the
\* clock reading and the collateral is positive: never for a collateral of
\* zero, and not at the second of the expiry.
C14_IsClaimable ==
    probe.evaluated
    => (/\ probe.claimable
              <=> (probe.loan.expiry < probe.now /\ BigLess[<<>>, probe.loan.collateral])
        /\ probe.loan.collateral = <<>> => ~probe.claimable
        /\ probe.now = probe.loan.expiry => ~probe.claimable)

C14_Witness ==
    /\ probe.evaluated
    /\ probe.now = probe.loan.expiry
    /\ probe.loan.collateral = TenTokens
    /\ ~probe.claimable

\* C15: from the expiry on calc_reward_percentage returns; it is 0 at the
\* expiry, 100 from seven days after it, and an evaluation at a later clock
\* reading never gives less than one at an earlier reading.
C15_PercentageMonotone ==
    [][/\ probe'.now >= probe'.loan.expiry
              => (/\ ~probe'.percentage.panic
                  /\ probe'.now = probe'.loan.expiry => probe'.percentage.val = 0
                  /\ probe'.now >= probe'.loan.expiry + SevenDays
                         => probe'.percentage.val = 100)
       /\ (/\ probe.evaluated
           /\ probe.now >= probe.loan.expiry
           /\ probe'.now >= probe.now)
              => probe'.percentage.val >= probe.percentage.val]_vars

C15_Witness ==
    /\ probe.evaluated
    /\ probe.now = probe.loan.expiry + SevenDays + SevenDays
    /\ probe.percentage.val = 100

\* C16: where calc_rewards_in_dollar returns, it returns zero at the second
\* of the expiry, and at a fixed clock reading from the expiry on a higher
\* price never gives a lower reward.
C16_RewardMonotoneInPrice ==
    [][/\ (probe'.now = probe'.loan.expiry /\ ~probe'.reward.panic)
              => probe'.reward.val = <<>>
       /\ (/\ probe.evaluated
           /\ probe.now >= probe.loan.expiry
           /\ probe'.now = probe.now
           /\ probe'.price >= probe.price
           /\ ~probe.reward.panic
           /\ ~probe'.reward.panic)
              => ~BigLess[probe'.reward.val, probe.reward.val]]_vars

C16_Witness ==
    /\ probe.evaluated
    /\ probe.now = probe.loan.expiry
    /\ probe.loan.collateral = TenTokens
    /\ probe.price = 1000
    /\ probe.reward = [panic |-> FALSE, val |-> <<>>]

\* the lesser of the 1e17 ceiling and 5% of the collateral
RewardCap(collateral) ==
    IF BigLess[BigDivSmall[collateral, 20], MaxRewardCeiling]
    THEN BigDivSmall[collateral, 20]
    ELSE MaxRewardCeiling

\* C17: where the reward is computed, the reward in gOHM is at most the
\* lesser of 1e17 and 5% of the collateral; from seven days after the expiry
\* it is that cap, and the reward in dollar is cap * price / 1e18.
C17_RewardCapped ==
    (/\ probe.evaluated
     /\ probe.now >= probe.loan.expiry
     /\ ~probe.reward.panic)
    => (/\ ~BigLess[RewardCap(probe.loan.collateral), probe.gohm]
        /\ probe.now >= probe.loan.expiry + SevenDays
               => (/\ probe.gohm = RewardCap(probe.loan.collateral)
                   /\ probe.reward.val
                          = DivWad(BigMul[RewardCap(probe.loan.collateral),
                                          Big[probe.price]])))

\* 10 tokens, seven days after the expiry, at price 2
C17_Witness ==
    /\ probe.evaluated
    /\ probe.loan.collateral = TenTokens
    /\ probe.now = probe.loan.expiry + SevenDays
    /\ probe.price = 2
    /\ probe.gohm = MaxRewardCeiling
    /\ probe.reward = [panic |-> FALSE, val |-> DivWad(BigMul[MaxRewardCeiling, <<2>>])]

\* an evaluation half way up the ramp followed by one of the same loan at the
\* same price at the end of the ramp
HalfThenFull ==
    /\ probe.evaluated
    /\ probe.now = probe.loan.expiry + HalfRamp
    /\ probe'.now = probe'.loan.expiry + SevenDays
    /\ probe'.price = probe.price
    /\ ~probe.reward.panic
    /\ ~probe'.reward.panic

C19_RefreshIdempotent ==
    [][(/\ last.kind \in RefreshEvents
        /\ last.cause = "none"
        /\ last.queries >= 1
        /\ last.ops = chainOps
        /\ (RepayLoan \/ ExtendLoan \/ DefaultLoan)
        /\ last'.cooler = last.cooler
        /\ last'.loan_id = last.loan_id
        /\ last'.cause = "none")
       => loans' = loans]_vars

\* a refresh event handled after the ledger changed the loan it is about
C19_Witness ==
    /\ last.kind \in RefreshEvents
    /\ last.cause = "none"
    /\ last.queries >= 1
    /\ last.ops = chainOps
    /\ chainOps = 1
    /\ \E i \in Matching(loans, last.cooler, last.loan_id) :
          /\ loans[i] = FromLedger(loans[i], ledger)
          /\ loans[i] # FromLedger(loans[i], InitialLedger)

\* C20: the SubmitTx of a NewBlock names the registry entries that clear
\* the reward period target, all of them and no others, in registry order,
\* the i-th cooler and the i-th loan_id being those of the same entry.
C20_ClaimAddressesSubset ==
    [][(last'.kind = "NewBlock" /\ last'.actions # <<>>)
       => LET sub == Ascending({i \in 1..Len(loans) :
                                   ClearsTarget(loans[i], last'.now)})
              tx == last'.actions[1]
          IN  /\ Len(tx.coolers) = Len(sub)
              /\ Len(tx.loans) = Len(sub)
              /\ \A j \in 1..Len(sub) :
                     /\ tx.coolers[j] = loans[sub[j]].cooler
                     /\ tx.loans[j] = loans[sub[j]].loan_id]_vars

\* C21: every (cooler, loan_id) of a returned SubmitTx is that of a registry
\* entry which, with the collateral and expiry it has after the refresh of
\* that decision, is claimable: expired before the clock reading and with a
\* positive collateral.
C21_ClaimedAreClaimable ==
    (last.kind = "NewBlock" /\ last.actions # <<>>)
    => \A j \in 1..Len(last.actions[1].coolers) :
           \A i \in Matching(loans, last.actions[1].coolers[j], last.actions[1].loans[j]) :
               /\ loans[i].expiry < last.now
               /\ BigLess[<<>>, loans[i].collateral]

\* C22: when a NewBlock has refreshed its whole subset and goes on to the
\* reward of the refreshed loans, now - expiry is computed only for loans
\* whose stored expiry is not after the clock reading.
C22_SubtractionOnlyAfterExpiry ==
    (/\ last.kind = "NewBlock"
     /\ last.detail.subset # <<>>
     /\ last.failIdx = 0
     /\ last.queries = Len(last.detail.subset))
    => \A j \in 1..Len(last.detail.subset) :
           loans[last.detail.subset[j]].expiry <= last.now

====
